---------------------------- MODULE Spec2Model ----------------------------
(***************************************************************************)
(* ziplus: US ZIP code -> state lookup, state name/abbreviation registry,  *)
(* lazily loaded dataset singleton, and the dataset build script.          *)
(*                                                                         *)
(* Python strings are modelled as sequences of characters; a character is  *)
(* a one-letter TLA+ string ("T", "x", "-", "7"), except for a handful of  *)
(* named non-ASCII or control characters:                                  *)
(*   "NL"        U+000A line feed                                          *)
(*   "ARDIGIT"   U+0663 ARABIC-INDIC DIGIT THREE (matched by \d)           *)
(*   "SHARP_S"   U+00DF, whose str.upper() is the two letters "SS"         *)
(*   "DOTLESS_I" U+0131, whose str.upper() is "I"                          *)
(*   "LONG_S"    U+017F, whose str.upper() is "S"                          *)
(* None is the one-element sequence <<"None">>, which is no string since   *)
(* "None" is not a character.                                              *)
(***************************************************************************)
EXTENDS Integers, Sequences, FiniteSets, TLC

None == <<"None">>

(***************************************************************************)
(* Data: the registry                                                      *)
(***************************************************************************)

\* STATES_LIST: the ordered abbreviation tuple; a dataset ordinal i is
\* STATES_LIST[i] in Python, STATES_LIST[i + 1] here (sequences are 1-based).
STATES_LIST ==
  << <<"A","K">>, <<"A","L">>, <<"A","R">>, <<"A","Z">>, <<"C","A">>, <<"C","O">>,
     <<"C","T">>, <<"D","C">>, <<"D","E">>, <<"F","L">>, <<"G","A">>, <<"H","I">>,
     <<"I","A">>, <<"I","D">>, <<"I","L">>, <<"I","N">>, <<"K","S">>, <<"K","Y">>,
     <<"L","A">>, <<"M","A">>, <<"M","D">>, <<"M","E">>, <<"M","I">>, <<"M","N">>,
     <<"M","O">>, <<"M","S">>, <<"M","T">>, <<"N","C">>, <<"N","D">>, <<"N","E">>,
     <<"N","H">>, <<"N","J">>, <<"N","M">>, <<"N","V">>, <<"N","Y">>, <<"O","H">>,
     <<"O","K">>, <<"O","R">>, <<"P","A">>, <<"R","I">>, <<"S","C">>, <<"S","D">>,
     <<"T","N">>, <<"T","X">>, <<"U","T">>, <<"V","A">>, <<"V","T">>, <<"W","A">>,
     <<"W","I">>, <<"W","V">>, <<"W","Y">> >>

\* STATES: the full name -> abbreviation mapping, as its items() in
\* insertion order.
STATES ==
  << <<<<"A","l","a","b","a","m","a">>, <<"A","L">>>>,
     <<<<"A","l","a","s","k","a">>, <<"A","K">>>>,
     <<<<"A","r","i","z","o","n","a">>, <<"A","Z">>>>,
     <<<<"A","r","k","a","n","s","a","s">>, <<"A","R">>>>,
     <<<<"C","a","l","i","f","o","r","n","i","a">>, <<"C","A">>>>,
     <<<<"C","o","l","o","r","a","d","o">>, <<"C","O">>>>,
     <<<<"C","o","n","n","e","c","t","i","c","u","t">>, <<"C","T">>>>,
     <<<<"D","e","l","a","w","a","r","e">>, <<"D","E">>>>,
     <<<<"D","i","s","t","r","i","c","t"," ","o","f"," ","C","o","l","u","m","b","i","a">>, <<"D","C">>>>,
     <<<<"F","l","o","r","i","d","a">>, <<"F","L">>>>,
     <<<<"G","e","o","r","g","i","a">>, <<"G","A">>>>,
     <<<<"H","a","w","a","i","i">>, <<"H","I">>>>,
     <<<<"I","d","a","h","o">>, <<"I","D">>>>,
     <<<<"I","l","l","i","n","o","i","s">>, <<"I","L">>>>,
     <<<<"I","n","d","i","a","n","a">>, <<"I","N">>>>,
     <<<<"I","o","w","a">>, <<"I","A">>>>,
     <<<<"K","a","n","s","a","s">>, <<"K","S">>>>,
     <<<<"K","e","n","t","u","c","k","y">>, <<"K","Y">>>>,
     <<<<"L","o","u","i","s","i","a","n","a">>, <<"L","A">>>>,
     <<<<"M","a","i","n","e">>, <<"M","E">>>>,
     <<<<"M","a","r","y","l","a","n","d">>, <<"M","D">>>>,
     <<<<"M","a","s","s","a","c","h","u","s","e","t","t","s">>, <<"M","A">>>>,
     <<<<"M","i","c","h","i","g","a","n">>, <<"M","I">>>>,
     <<<<"M","i","n","n","e","s","o","t","a">>, <<"M","N">>>>,
     <<<<"M","i","s","s","i","s","s","i","p","p","i">>, <<"M","S">>>>,
     <<<<"M","i","s","s","o","u","r","i">>, <<"M","O">>>>,
     <<<<"M","o","n","t","a","n","a">>, <<"M","T">>>>,
     <<<<"N","e","b","r","a","s","k","a">>, <<"N","E">>>>,
     <<<<"N","e","v","a","d","a">>, <<"N","V">>>>,
     <<<<"N","e","w"," ","H","a","m","p","s","h","i","r","e">>, <<"N","H">>>>,
     <<<<"N","e","w"," ","J","e","r","s","e","y">>, <<"N","J">>>>,
     <<<<"N","e","w"," ","M","e","x","i","c","o">>, <<"N","M">>>>,
     <<<<"N","e","w"," ","Y","o","r","k">>, <<"N","Y">>>>,
     <<<<"N","o","r","t","h"," ","C","a","r","o","l","i","n","a">>, <<"N","C">>>>,
     <<<<"N","o","r","t","h"," ","D","a","k","o","t","a">>, <<"N","D">>>>,
     <<<<"O","h","i","o">>, <<"O","H">>>>,
     <<<<"O","k","l","a","h","o","m","a">>, <<"O","K">>>>,
     <<<<"O","r","e","g","o","n">>, <<"O","R">>>>,
     <<<<"P","e","n","n","s","y","l","v","a","n","i","a">>, <<"P","A">>>>,
     <<<<"R","h","o","d","e"," ","I","s","l","a","n","d">>, <<"R","I">>>>,
     <<<<"S","o","u","t","h"," ","C","a","r","o","l","i","n","a">>, <<"S","C">>>>,
     <<<<"S","o","u","t","h"," ","D","a","k","o","t","a">>, <<"S","D">>>>,
     <<<<"T","e","n","n","e","s","s","e","e">>, <<"T","N">>>>,
     <<<<"T","e","x","a","s">>, <<"T","X">>>>,
     <<<<"U","t","a","h">>, <<"U","T">>>>,
     <<<<"V","e","r","m","o","n","t">>, <<"V","T">>>>,
     <<<<"V","i","r","g","i","n","i","a">>, <<"V","A">>>>,
     <<<<"W","a","s","h","i","n","g","t","o","n">>, <<"W","A">>>>,
     <<<<"W","e","s","t"," ","V","i","r","g","i","n","i","a">>, <<"W","V">>>>,
     <<<<"W","i","s","c","o","n","s","i","n">>, <<"W","I">>>>,
     <<<<"W","y","o","m","i","n","g">>, <<"W","Y">>>> >>

\* str.upper() on one character (the result is a string: upper() of
\* U+00DF has two characters).
LowerToUpper ==
  "a" :> "A" @@ "b" :> "B" @@ "c" :> "C" @@ "d" :> "D" @@ "e" :> "E" @@ "f" :> "F" @@ "g" :> "G"
  @@ "h" :> "H" @@ "i" :> "I" @@ "j" :> "J" @@ "k" :> "K" @@ "l" :> "L" @@ "m" :> "M" @@ "n" :> "N"
  @@ "o" :> "O" @@ "p" :> "P" @@ "q" :> "Q" @@ "r" :> "R" @@ "s" :> "S" @@ "t" :> "T" @@ "u" :> "U"
  @@ "v" :> "V" @@ "w" :> "W" @@ "x" :> "X" @@ "y" :> "Y" @@ "z" :> "Z"

UpperChar(c) ==
  IF c \in DOMAIN LowerToUpper THEN <<LowerToUpper[c]>>
  ELSE IF c = "SHARP_S" THEN <<"S", "S">>
  ELSE IF c = "DOTLESS_I" THEN <<"I">>
  ELSE IF c = "LONG_S" THEN <<"S">>
  ELSE <<c>>

\* str.upper()
RECURSIVE Upper(_)
Upper(s) == IF s = <<>> THEN <<>> ELSE UpperChar(Head(s)) \o Upper(Tail(s))

\* A dict built by a comprehension over a sequence of (key, value) pairs:
\* a later pair with the same key overwrites an earlier one.
DictOf(pairs) ==
  [k \in {pairs[i][1] : i \in DOMAIN pairs} |->
     LET last == CHOOSE i \in DOMAIN pairs :
                   /\ pairs[i][1] = k
                   /\ \A j \in DOMAIN pairs : pairs[j][1] = k => j <= i
     IN  pairs[last][2]]

_NAME_TO_ABBR == DictOf([i \in DOMAIN STATES |-> <<Upper(STATES[i][1]), STATES[i][2]>>])

\* Variant: the abbreviation table keeps the upper-cased key of the name
\* table instead of the canonical name.
_ABBR_TO_NAME_upper == DictOf([i \in DOMAIN STATES |-> <<STATES[i][2], Upper(STATES[i][1])>>])

_ABBR_TO_NAME == DictOf([i \in DOMAIN STATES |-> <<STATES[i][2], STATES[i][1]>>])

(***************************************************************************)
(* Outcomes of a call: a returned value or a raised exception.             *)
(***************************************************************************)
Return(v) == [kind |-> "return", val |-> v, exc |-> "-"]

Raise(e) == [kind |-> "raise", val |-> None, exc |-> e]

\* _resolve: (abbreviation, full_name) or None; abbreviation match first.
_resolve(value) ==
  LET upper == Upper(value) IN
  IF upper \in DOMAIN _ABBR_TO_NAME THEN <<upper, _ABBR_TO_NAME[upper]>>
  ELSE IF upper \in DOMAIN _NAME_TO_ABBR
       THEN LET abbr == _NAME_TO_ABBR[upper] IN <<abbr, _ABBR_TO_NAME[abbr]>>
       ELSE None

state_to_abbr(state, default, raise_exception) ==
  LET upper == Upper(state) IN
  IF upper \in DOMAIN _NAME_TO_ABBR THEN Return(_NAME_TO_ABBR[upper])
  ELSE IF raise_exception THEN Raise("StateException")
  ELSE Return(default)

\* Variant: the fallback value is itself run through the registry tables.
abbr_to_state_leaky(abbr, default, raise_exception) ==
  LET upper == Upper(abbr)
      found == IF upper \in DOMAIN _ABBR_TO_NAME THEN _ABBR_TO_NAME[upper] ELSE default
  IN  IF found = None /\ raise_exception THEN Raise("StateException")
      ELSE IF found # None /\ Upper(found) \in DOMAIN _NAME_TO_ABBR
           THEN Return(_ABBR_TO_NAME[_NAME_TO_ABBR[Upper(found)]])
           ELSE Return(found)

abbr_to_state(abbr, default, raise_exception) ==
  LET upper == Upper(abbr) IN
  IF upper \in DOMAIN _ABBR_TO_NAME THEN Return(_ABBR_TO_NAME[upper])
  ELSE IF raise_exception THEN Raise("StateException")
  ELSE Return(default)

norm_to_abbr(value, default, raise_exception) ==
  LET resolved == _resolve(value) IN
  IF resolved # None THEN Return(resolved[1])
  ELSE IF raise_exception THEN Raise("StateException")
  ELSE Return(default)

norm_to_state(value, default, raise_exception) ==
  LET resolved == _resolve(value) IN
  IF resolved # None THEN Return(resolved[2])
  ELSE IF raise_exception THEN Raise("StateException")
  ELSE Return(default)

\* Variant: the fallback follows the conversion functions (absent value).
format_state_absent(value, raise_exception) ==
  LET upper == Upper(value) IN
  IF upper \in DOMAIN _NAME_TO_ABBR THEN Return(_ABBR_TO_NAME[_NAME_TO_ABBR[upper]])
  ELSE IF upper \in DOMAIN _ABBR_TO_NAME THEN Return(upper)
  ELSE IF raise_exception THEN Raise("StateException")
  ELSE Return(None)

format_state(value, raise_exception) ==
  LET upper == Upper(value) IN
  IF upper \in DOMAIN _NAME_TO_ABBR THEN Return(_ABBR_TO_NAME[_NAME_TO_ABBR[upper]])
  ELSE IF upper \in DOMAIN _ABBR_TO_NAME THEN Return(upper)
  ELSE IF raise_exception THEN Raise("StateException")
  ELSE Return(value)

is_state(value) == Return(_resolve(value) # None)

is_state_full(state) == Return(Upper(state) \in DOMAIN _NAME_TO_ABBR)

is_state_abbr(abbr) == Return(Upper(abbr) \in DOMAIN _ABBR_TO_NAME)


(***************************************************************************)
(* Validation                                                              *)
(***************************************************************************)

\* \d in a str pattern: any Unicode decimal digit.
IsDigit(c) == c \in {"0", "1", "2", "3", "4", "5", "6", "7", "8", "9", "ARDIGIT"}

\* Variant: the pattern r'^\d{5}(-\d{4})?$', whose hyphen and four-digit
\* group come together or not at all.
RE_ZIP_PLUS4_match_strict(s) ==
  \E g \in {0, 5} :
    LET n == 5 + g IN
    /\ Len(s) >= n
    /\ \A i \in 1..5 : IsDigit(s[i])
    /\ g = 5 => (s[6] = "-" /\ \A i \in 7..10 : IsDigit(s[i]))
    /\ \/ Len(s) = n
       \/ Len(s) = n + 1 /\ s[n + 1] = "NL"

\* RE_ZIP_PLUS4.match(s) is not None, for r'^(\d{5})-?(\d{4})?$'.  The match
\* exists iff some choice of the two optional parts (h: the hyphen, g: the
\* four-digit group) reaches "$", which matches at the end of the string and
\* also just before a line feed that is the last character.
RE_ZIP_PLUS4_match(s) ==
  \E h \in {0, 1}, g \in {0, 4} :
    LET n == 5 + h + g IN
    /\ Len(s) >= n
    /\ \A i \in 1..5 : IsDigit(s[i])
    /\ h = 1 => s[6] = "-"
    /\ g = 4 => \A i \in (5 + h + 1)..(5 + h + 4) : IsDigit(s[i])
    /\ \/ Len(s) = n
       \/ Len(s) = n + 1 /\ s[n + 1] = "NL"

is_valid(zipcode) == RE_ZIP_PLUS4_match(zipcode)

(***************************************************************************)
(* State                                                                   *)
(***************************************************************************)
VARIABLES
  artifact,          \* the packaged file zipcodes.json.gz
  _zipcodes,         \* module global: None or a reference to the loaded dict
  _dataset_version,  \* module global: None or the version string
  decodes,           \* number of completed json.loads of the artifact
  nextId,            \* identity of the next dict object to be created
  call,              \* the last completed public call and its outcome
  input,             \* arguments drawn for the pure-function specifications
  pc,                \* per thread: position inside a concurrent first query
  dataset,           \* per thread: the local variable `dataset` of _load
  seen               \* per thread: the table the caller read after _load

vars == <<artifact, _zipcodes, _dataset_version, decodes, nextId, call, input,
          pc, dataset, seen>>

\* A reference to a dict object: its identity (ref[2], what `is` compares)
\* and its content.
DictRef(id, content) == <<"dict", id, content>>

Content(ref) == ref[3]

\* dict.get(key, default)
Get(d, key, default) == IF key \in DOMAIN d THEN d[key] ELSE default

Str_unknown == <<"u", "n", "k", "n", "o", "w", "n">>

\* Upper bound on the number of decodes of an artifact that decodes but never
\* loads (a JSON document that is not an object).
MaxDecodes == 2

(***************************************************************************)
(* The loader                                                              *)
(***************************************************************************)

\* The module globals as one value.
Globals == [zc |-> _zipcodes, ver |-> _dataset_version, dec |-> decodes, nid |-> nextId]

\* Variant: no early return when the table is already bound.
_load_unguarded ==
  IF artifact.kind = "missing" THEN [g |-> Globals, exc |-> "FileNotFoundError"]
  ELSE IF artifact.kind = "corrupt" THEN [g |-> Globals, exc |-> "DecodeError"]
  ELSE IF artifact.kind = "not_object"
       THEN [g |-> [Globals EXCEPT !.dec = @ + 1], exc |-> "AttributeError"]
  ELSE [g |-> [zc  |-> DictRef(nextId, Get(artifact.doc, "zipcodes", <<>>)),
               ver |-> Get(artifact.doc, "version", Str_unknown),
               dec |-> decodes + 1,
               nid |-> nextId + 1],
        exc |-> "-"]

\* Variant: a failed load leaves an empty table bound.
_load_caching_failure ==
  IF _zipcodes # None THEN [g |-> Globals, exc |-> "-"]
  ELSE IF artifact.kind = "missing"
       THEN [g |-> [Globals EXCEPT !.zc = DictRef(nextId, <<>>), !.nid = @ + 1],
             exc |-> "FileNotFoundError"]
  ELSE IF artifact.kind = "corrupt"
       THEN [g |-> [Globals EXCEPT !.zc = DictRef(nextId, <<>>), !.nid = @ + 1],
             exc |-> "DecodeError"]
  ELSE IF artifact.kind = "not_object"
       THEN [g |-> [Globals EXCEPT !.zc = DictRef(nextId, <<>>), !.nid = @ + 1, !.dec = @ + 1],
             exc |-> "AttributeError"]
  ELSE [g |-> [zc  |-> DictRef(nextId, Get(artifact.doc, "zipcodes", <<>>)),
               ver |-> Get(artifact.doc, "version", Str_unknown),
               dec |-> decodes + 1,
               nid |-> nextId + 1],
        exc |-> "-"]

\* _load(), run to completion without interruption: the globals after the
\* call and the exception it raised ("-" if none).
\*   artifact.kind = "missing"     gzip.open raises (line 157)
\*   artifact.kind = "corrupt"     gz.read / decode / json.loads raises (158)
\*   artifact.kind = "not_object"  json.loads succeeds, dataset.get raises (159)
\*   artifact.kind = "ok"          artifact.doc is the decoded JSON object
_load ==
  IF _zipcodes # None THEN [g |-> Globals, exc |-> "-"]
  ELSE IF artifact.kind = "missing" THEN [g |-> Globals, exc |-> "FileNotFoundError"]
  ELSE IF artifact.kind = "corrupt" THEN [g |-> Globals, exc |-> "DecodeError"]
  ELSE IF artifact.kind = "not_object"
       THEN [g |-> [Globals EXCEPT !.dec = @ + 1], exc |-> "AttributeError"]
  ELSE [g |-> [zc  |-> DictRef(nextId, Get(artifact.doc, "zipcodes", <<>>)),
               ver |-> Get(artifact.doc, "version", Str_unknown),
               dec |-> decodes + 1,
               nid |-> nextId + 1],
        exc |-> "-"]

\* First n characters of s: s[:n]
Prefix(s, n) == SubSeq(s, 1, IF Len(s) < n THEN Len(s) ELSE n)

\* Variant: the table is queried with the whole input, not its first five
\* characters.
get_state_whole_key(zipcode, abbr) ==
  LET L == _load IN
  IF L.exc # "-" THEN [g |-> L.g, out |-> Raise(L.exc)]
  ELSE IF ~is_valid(zipcode) THEN [g |-> L.g, out |-> Raise("ValueError")]
  ELSE LET table == Content(L.g.zc)
           key == zipcode
       IN  IF key \notin DOMAIN table THEN [g |-> L.g, out |-> Return(None)]
           ELSE LET state_abbr == STATES_LIST[table[key] + 1] IN
                [g |-> L.g,
                 out |-> Return(IF abbr THEN state_abbr ELSE _ABBR_TO_NAME[state_abbr])]

\* get_state(zipcode, abbr=abbr): the globals after the call and its outcome.
get_state(zipcode, abbr) ==
  LET L == _load IN
  IF L.exc # "-" THEN [g |-> L.g, out |-> Raise(L.exc)]
  ELSE IF ~is_valid(zipcode) THEN [g |-> L.g, out |-> Raise("ValueError")]
  ELSE LET table == Content(L.g.zc)
           key == Prefix(zipcode, 5)
       IN  IF key \notin DOMAIN table THEN [g |-> L.g, out |-> Return(None)]
           ELSE LET state_abbr == STATES_LIST[table[key] + 1] IN
                [g |-> L.g,
                 out |-> Return(IF abbr THEN state_abbr ELSE _ABBR_TO_NAME[state_abbr])]

\* Variant: the version global is read without loading first.
dataset_version_no_load == [g |-> Globals, out |-> Return(_dataset_version)]

dataset_version ==
  LET L == _load IN
  IF L.exc # "-" THEN [g |-> L.g, out |-> Raise(L.exc)]
  ELSE [g |-> L.g, out |-> Return(L.g.ver)]


(***************************************************************************)
(* Public calls, each run to completion (a single-threaded caller)         *)
(***************************************************************************)
SetGlobals(g) ==
  /\ _zipcodes' = g.zc
  /\ _dataset_version' = g.ver
  /\ decodes' = g.dec
  /\ nextId' = g.nid

Completed(fn, args, out) == [fn |-> fn, args |-> args, before |-> Globals, out |-> out]

CanDecode == _zipcodes # None \/ decodes < MaxDecodes

Call__load ==
  /\ CanDecode
  /\ LET L == _load IN
       /\ SetGlobals(L.g)
       /\ call' = Completed("_load", <<>>, IF L.exc = "-" THEN Return(None) ELSE Raise(L.exc))
  /\ UNCHANGED <<artifact, input, pc, dataset, seen>>

Call_dataset_version ==
  /\ CanDecode
  /\ LET R == dataset_version IN
       /\ SetGlobals(R.g)
       /\ call' = Completed("dataset_version", <<>>, R.out)
  /\ UNCHANGED <<artifact, input, pc, dataset, seen>>

Call_get_state(zipcode, abbr) ==
  /\ CanDecode
  /\ LET R == get_state(zipcode, abbr) IN
       /\ SetGlobals(R.g)
       /\ call' = Completed("get_state", <<zipcode, abbr>>, R.out)
  /\ UNCHANGED <<artifact, input, pc, dataset, seen>>

\* The functions below never call _load: they leave the globals alone.
Pure(fn, args, out) ==
  /\ call' = Completed(fn, args, out)
  /\ UNCHANGED <<artifact, _zipcodes, _dataset_version, decodes, nextId,
                 input, pc, dataset, seen>>

Call_is_valid(zipcode) == Pure("is_valid", <<zipcode>>, Return(is_valid(zipcode)))

Call_state_to_abbr(v, d, r) == Pure("state_to_abbr", <<v, d, r>>, state_to_abbr(v, d, r))

Call_abbr_to_state(v, d, r) == Pure("abbr_to_state", <<v, d, r>>, abbr_to_state(v, d, r))

Call_norm_to_abbr(v, d, r) == Pure("norm_to_abbr", <<v, d, r>>, norm_to_abbr(v, d, r))

Call_norm_to_state(v, d, r) == Pure("norm_to_state", <<v, d, r>>, norm_to_state(v, d, r))

Call_format_state(v, r) == Pure("format_state", <<v, r>>, format_state(v, r))

Call_is_state(v) == Pure("is_state", <<v>>, is_state(v))

Call_is_state_full(v) == Pure("is_state_full", <<v>>, is_state_full(v))

Call_is_state_abbr(v) == Pure("is_state_abbr", <<v>>, is_state_abbr(v))


(***************************************************************************)
(* The packaged artifacts and the arguments of the lifecycle specification *)
(***************************************************************************)
Zip_78701 == <<"7", "8", "7", "0", "1">>

Zip_00501 == <<"0", "0", "5", "0", "1">>

Str_version == <<"v", "1">>

Str_type == <<"s", "t", "a", "t", "e", "_", "o", "n", "l", "y">>

\* Ordinals the artifact format allows: indices into STATES_LIST.
Ordinals == 0..(Len(STATES_LIST) - 1)

\* ZIP tables: the empty table, every ordinal for one ZIP, and two ZIPs.
Tables ==
  {<<>>}
  \cup {(Zip_78701 :> i) : i \in Ordinals}
  \cup {(Zip_78701 :> i) @@ (Zip_00501 :> j) : i \in {0, 43}, j \in {34, 50}}

\* JSON objects the artifact may decode to; the code supplies defaults for
\* a missing "version" and a missing "zipcodes".
Docs ==
  {("type" :> Str_type) @@ ("version" :> Str_version) @@ ("zipcodes" :> t) : t \in Tables}
  \cup {("type" :> Str_type) @@ ("zipcodes" :> t) : t \in {<<>>, (Zip_78701 :> 43)}}
  \cup {("type" :> Str_type) @@ ("version" :> Str_version), ("type" :> Str_type)}

NoDoc == <<>>

Artifacts ==
  {[kind |-> "ok", doc |-> d] : d \in Docs}
  \cup {[kind |-> k, doc |-> NoDoc] : k \in {"missing", "corrupt", "not_object"}}

ZipArgs ==
  { <<"7", "8", "7", "0", "1">>,
    <<"7", "8", "7", "0", "1", "-", "1", "2", "3", "4">>,
    <<"7", "8", "7", "0", "1", "1", "2", "3", "4">>,
    <<"7", "8", "7", "0", "1", "-">>,
    <<"7", "8", "7", "0", "1", "NL">>,
    <<"0", "0", "5", "0", "1">>,
    <<"0", "0", "5", "0", "1", "-", "0", "0", "0", "1">>,
    <<"0", "0", "0", "0", "0">>,
    <<"1", "2", "3">>,
    <<>>,
    <<"h", "e", "l", "l", "o">>,
    <<"7", "8", "7", "0", "1", "-", "1", "2">>,
    <<"7", "8", "7", "0", "ARDIGIT">>,
    <<"7", "8", "7", "0", "1", "x">> }

ValueArgs == { <<"t", "x">>, <<"q", "Q", "q">> }

DefaultArgs == { <<"T", "E", "X", "A", "S">> }

NoThreads == <<>>

NoInput == <<>>

NoCall == [fn |-> "-", args |-> <<>>, before |-> <<>>, out |-> Return(None)]

InitGlobals ==
  /\ _zipcodes = None
  /\ _dataset_version = None
  /\ decodes = 0
  /\ nextId = 1
  /\ call = NoCall

Init ==
  /\ artifact \in Artifacts
  /\ InitGlobals
  /\ input = NoInput
  /\ pc = NoThreads
  /\ dataset = NoThreads
  /\ seen = NoThreads

Next ==
  \/ Call__load
  \/ Call_dataset_version
  \/ \E z \in ZipArgs, a \in BOOLEAN : Call_get_state(z, a)
  \/ \E z \in ZipArgs : Call_is_valid(z)
  \/ \E v \in ValueArgs, d \in DefaultArgs, r \in BOOLEAN : Call_state_to_abbr(v, d, r)
  \/ \E v \in ValueArgs, d \in DefaultArgs, r \in BOOLEAN : Call_abbr_to_state(v, d, r)
  \/ \E v \in ValueArgs, d \in DefaultArgs, r \in BOOLEAN : Call_norm_to_abbr(v, d, r)
  \/ \E v \in ValueArgs, d \in DefaultArgs, r \in BOOLEAN : Call_norm_to_state(v, d, r)
  \/ \E v \in ValueArgs, r \in BOOLEAN : Call_format_state(v, r)
  \/ \E v \in ValueArgs : Call_is_state(v)
  \/ \E v \in ValueArgs : Call_is_state_full(v)
  \/ \E v \in ValueArgs : Call_is_state_abbr(v)

Spec == Init /\ [][Next]_vars


(***************************************************************************)
(* Registry functions on drawn inputs                                      *)
(***************************************************************************)
UpperToLower == [u \in {LowerToUpper[c] : c \in DOMAIN LowerToUpper} |->
                   CHOOSE c \in DOMAIN LowerToUpper : LowerToUpper[c] = u]

\* s with the letters at the positions in `ups` upper-cased, the others
\* lower-cased.
Cased(s, ups) ==
  [i \in DOMAIN s |->
     IF i \in ups
     THEN IF s[i] \in DOMAIN LowerToUpper THEN LowerToUpper[s[i]] ELSE s[i]
     ELSE IF s[i] \in DOMAIN UpperToLower THEN UpperToLower[s[i]] ELSE s[i]]

CaseVariants(s) ==
  {s, Cased(s, DOMAIN s), Cased(s, {}),
   Cased(s, {i \in DOMAIN s : i % 2 = 0}), Cased(s, {i \in DOMAIN s : i % 2 = 1})}

FullNames == {STATES[i][1] : i \in DOMAIN STATES}

Abbrs == {STATES[i][2] : i \in DOMAIN STATES}

OtherValues ==
  { <<>>,
    <<"Q", "Q">>,
    <<"q", "q">>,
    <<"q", "Q", "q">>,
    <<"z", "z">>,
    <<"m", "i", "s", "s", "i", "n", "g">>,
    <<"N", "o", "p", "e">>,
    <<"p", "l", "u", "t", "o">>,
    <<"T", "e", "x", "a", "s", "s">>,
    <<"T", "X", "X">>,
    <<" ", "T", "X">>,
    <<"T">>,
    <<"h", "DOTLESS_I">>,
    <<"M", "I", "SHARP_S", "I", "SHARP_S", "I", "P", "P", "I">>,
    <<"T", "e", "x", "a", "LONG_S">>,
    <<"d", "i", "s", "t", "r", "i", "c", "t", " ", " ", "o", "f", " ", "c", "o", "l", "u", "m", "b", "i", "a">>,
    <<"N", "e", "w", "-", "Y", "o", "r", "k">> }

RegValues ==
  UNION {CaseVariants(n) : n \in FullNames} \cup UNION {CaseVariants(a) : a \in Abbrs}
  \cup OtherValues

RegDefaults == { None, <<"T", "E", "X", "A", "S">>, <<"T", "X">>, <<"n", "o", "p", "e">> }

ArtifactTX ==
  [kind |-> "ok",
   doc |-> ("type" :> Str_type) @@ ("version" :> Str_version) @@ ("zipcodes" :> (Zip_78701 :> 43))]

InitReg ==
  /\ artifact = ArtifactTX
  /\ InitGlobals
  /\ input \in [value : RegValues, default : RegDefaults, raise_exception : BOOLEAN]
  /\ pc = NoThreads
  /\ dataset = NoThreads
  /\ seen = NoThreads

NextReg ==
  \/ Call_state_to_abbr(input.value, input.default, input.raise_exception)
  \/ Call_abbr_to_state(input.value, input.default, input.raise_exception)
  \/ Call_norm_to_abbr(input.value, input.default, input.raise_exception)
  \/ Call_norm_to_state(input.value, input.default, input.raise_exception)
  \/ Call_format_state(input.value, input.raise_exception)
  \/ Call_is_state(input.value)
  \/ Call_is_state_full(input.value)
  \/ Call_is_state_abbr(input.value)

SpecReg == InitReg /\ [][NextReg]_vars


(***************************************************************************)
(* Properties of the registry functions (checked under SpecReg)            *)
(***************************************************************************)

\* A value equals a registry name or abbreviation case-insensitively when
\* the two are equal after upper().  The upper-cased names, computed once:
UpperNames == [i \in DOMAIN STATES |-> Upper(STATES[i][1])]

IndexOfName(v) == LET u == Upper(v) IN {i \in DOMAIN STATES : UpperNames[i] = u}

IndexOfAbbr(v) == LET u == Upper(v) IN {i \in DOMAIN STATES : Upper(STATES[i][2]) = u}

IsName(v) == IndexOfName(v) # {}

IsAbbr(v) == IndexOfAbbr(v) # {}

\* The registry's canonical full name / abbreviation of a value that matches.
NameOf(v) == STATES[CHOOSE i \in IndexOfName(v) \cup IndexOfAbbr(v) : TRUE][1]

AbbrOf(v) == STATES[CHOOSE i \in IndexOfName(v) \cup IndexOfAbbr(v) : TRUE][2]

Matches(fn, v) ==
  IF fn = "state_to_abbr" THEN IsName(v)
  ELSE IF fn = "abbr_to_state" THEN IsAbbr(v)
  ELSE IsName(v) \/ IsAbbr(v)

Converted(fn, v) == IF fn \in {"state_to_abbr", "norm_to_abbr"} THEN AbbrOf(v) ELSE NameOf(v)

\* C3: for state_to_abbr, abbr_to_state, norm_to_abbr and norm_to_state: a
\* value that does not match raises StateException when raise_exception is
\* true and otherwise returns the caller's default verbatim (never the
\* registry's entry for the default); a value that matches returns the
\* registry's entry for the value, whatever the flag and the default are.
C3_DefaultVerbatim ==
  call.fn \in {"state_to_abbr", "abbr_to_state", "norm_to_abbr", "norm_to_state"} =>
    LET v == call.args[1]
        d == call.args[2]
        r == call.args[3]
    IN  IF Matches(call.fn, v) THEN call.out = Return(Converted(call.fn, v))
        ELSE IF r THEN call.out = Raise("StateException")
        ELSE call.out = Return(d)

\* abbr_to_state('QQ', 'TEXAS') returned 'TEXAS'.
C3_Witness ==
  /\ call.fn = "abbr_to_state"
  /\ call.args = <<<<"Q", "Q">>, <<"T", "E", "X", "A", "S">>, FALSE>>
  /\ call.out = Return(<<"T", "E", "X", "A", "S">>)

RegistryBijection ==
  /\ Cardinality(DOMAIN _NAME_TO_ABBR) = 51
  /\ Cardinality(DOMAIN _ABBR_TO_NAME) = 51
  /\ \A k \in DOMAIN _NAME_TO_ABBR : Upper(_ABBR_TO_NAME[_NAME_TO_ABBR[k]]) = k
  /\ \A a \in DOMAIN _ABBR_TO_NAME : _NAME_TO_ABBR[Upper(_ABBR_TO_NAME[a])] = a

\* C6: abbr_to_state(state_to_abbr(n)) is the canonical full name of n for a
\* full name n in any letter case, state_to_abbr(abbr_to_state(a)) is a
\* upper-cased for an abbreviation a in any letter case, and the two tables
\* are inverse bijections over 51 entries.
C6_RoundTrip ==
  /\ (call.fn = "state_to_abbr" /\ IsName(call.args[1])) =>
       /\ call.out.kind = "return"
       /\ abbr_to_state(call.out.val, None, FALSE) = Return(NameOf(call.args[1]))
  /\ (call.fn = "abbr_to_state" /\ IsAbbr(call.args[1])) =>
       /\ call.out.kind = "return"
       /\ state_to_abbr(call.out.val, None, FALSE) = Return(Upper(call.args[1]))
  /\ RegistryBijection

\* state_to_abbr('nEw hAmPsHiRe') returned 'NH'.
C6_Witness ==
  /\ call.fn = "state_to_abbr"
  /\ call.args[1] = <<"n", "E", "w", " ", "h", "A", "m", "P", "s", "H", "i", "R", "e">>
  /\ call.out = Return(<<"N", "H">>)

\* C7: format_state returns the canonical full name when the value equals a
\* full name case-insensitively; otherwise the value upper-cased when it
\* equals an abbreviation; otherwise it raises StateException when
\* raise_exception is true and returns the input unchanged when it is false.
\* It never returns None.
C7_FormatState ==
  call.fn = "format_state" =>
    LET v == call.args[1]
        r == call.args[2]
    IN  /\ IF IsName(v) THEN call.out = Return(NameOf(v))
           ELSE IF IsAbbr(v) THEN call.out = Return(Upper(v))
           ELSE IF r THEN call.out = Raise("StateException")
           ELSE call.out = Return(v)
        /\ call.out.kind = "return" => call.out.val # None

\* format_state('qQq') returned 'qQq'.
C7_Witness ==
  /\ call.fn = "format_state"
  /\ call.args = <<<<"q", "Q", "q">>, FALSE>>
  /\ call.out = Return(<<"q", "Q", "q">>)


(***************************************************************************)
(* Properties of the dataset singleton (checked under Spec)                *)
(***************************************************************************)
Letters == <<"A", "B", "C", "D", "E", "F", "G", "H", "I", "J", "K", "L", "M",
             "N", "O", "P", "Q", "R", "S", "T", "U", "V", "W", "X", "Y", "Z">>

Rank(c) == CHOOSE i \in DOMAIN Letters : Letters[i] = c

\* Alphabetical order on two-letter codes.
Before(a, b) == Rank(a[1]) < Rank(b[1]) \/ (a[1] = b[1] /\ Rank(a[2]) < Rank(b[2]))

\* The i-th (from 0) abbreviation of the registry in alphabetical order.
SortedAbbrs ==
  [i \in 0..(Cardinality(Abbrs) - 1) |->
     CHOOSE a \in Abbrs : Cardinality({b \in Abbrs : Before(b, a)}) = i]

SortedAbbr(i) == SortedAbbrs[i]

IsAsciiDigit(c) == c \in {"0", "1", "2", "3", "4", "5", "6", "7", "8", "9"}

\* z + '-' + d for a 5-digit z and a 4-digit d
IsZipPlus4(s) ==
  /\ Len(s) = 10
  /\ s[6] = "-"
  /\ \A i \in (1..5) \cup (7..10) : IsAsciiDigit(s[i])

\* C1: with a loaded table, get_state raises ValueError exactly when
\* is_valid is false; returns None when the code is valid and its first 5
\* characters are no key of the table; and otherwise returns the
\* abbreviation at the key's ordinal in the alphabetically sorted list, or
\* that abbreviation's full name when abbr is false.  A ZIP+4 suffix is
\* ignored.
C1_GetState ==
  (call.fn = "get_state" /\ _zipcodes # None) =>
    LET z == call.args[1]
        a == call.args[2]
        table == Content(_zipcodes)
        key == Prefix(z, 5)
    IN  /\ IF ~is_valid(z) THEN call.out = Raise("ValueError")
           ELSE IF key \notin DOMAIN table THEN call.out = Return(None)
           ELSE /\ table[key] \in 0..50
                /\ call.out = Return(IF a THEN SortedAbbr(table[key])
                                     ELSE NameOf(SortedAbbr(table[key])))
        /\ IsZipPlus4(z) => call.out = get_state(key, a).out

\* get_state('78701-1234', abbr=False) returned 'Texas'.
C1_Witness ==
  /\ call.fn = "get_state"
  /\ call.args = <<<<"7", "8", "7", "0", "1", "-", "1", "2", "3", "4">>, FALSE>>
  /\ call.out = Return(<<"T", "e", "x", "a", "s">>)

\* C4: once the table is bound, no call decodes again, rebinds the table to
\* another instance or changes the version string.
C4_LoadOnce ==
  [][_zipcodes # None =>
       /\ _zipcodes' = _zipcodes
       /\ _dataset_version' = _dataset_version
       /\ decodes' = decodes]_vars

\* The loader was called with the table already bound.
C4_Witness ==
  /\ call.fn = "_load"
  /\ call.before.zc # None
  /\ call.before.zc = _zipcodes
  /\ decodes = 1

QueryFns ==
  {"get_state", "dataset_version", "state_to_abbr", "abbr_to_state", "norm_to_abbr",
   "norm_to_state", "format_state", "is_state", "is_state_full", "is_state_abbr"}

\* C8 as stated: after any public query function other than is_valid
\* returns, the dataset table is loaded.
C8_EveryEntryPointLoads ==
  (call.fn \in QueryFns /\ call.out.kind = "return") => _zipcodes # None

\* C8 as amended: get_state and dataset_version load the dataset (it is
\* loaded once either has returned or get_state has raised ValueError); the
\* registry functions and is_valid leave the load state as it was.
C8_OnlyDatasetQueriesLoad ==
  /\ (/\ call.fn \in {"get_state", "dataset_version"}
      /\ call.out.kind = "return" \/ call.out = Raise("ValueError"))
       => (_zipcodes # None /\ _dataset_version # None)
  /\ call.fn \in (QueryFns \cup {"is_valid"}) \ {"get_state", "dataset_version"}
       => Globals = call.before

\* dataset_version() was the first query and returned with the table bound.
C8_Witness ==
  /\ call.fn = "dataset_version"
  /\ call.before.zc = None
  /\ call.out.kind = "return"
  /\ _zipcodes # None

LoadErrors == {"FileNotFoundError", "DecodeError", "AttributeError"}

\* C9: with an artifact that cannot be loaded, _load, get_state and
\* dataset_version raise the load error (get_state before it checks the
\* input) and both globals stay unset; in every state the table and the
\* version are set together or not at all.
C9_NoBrokenStateCached ==
  /\ (artifact.kind # "ok" /\ call.fn \in {"_load", "get_state", "dataset_version"}) =>
       /\ call.out.kind = "raise"
       /\ call.out.exc \in LoadErrors
       /\ _zipcodes = None
       /\ _dataset_version = None
  /\ (_zipcodes = None) <=> (_dataset_version = None)

\* get_state('123') on an artifact that is not a JSON object raised the load
\* error, not ValueError.
C9_Witness ==
  /\ artifact.kind = "not_object"
  /\ call.fn = "get_state"
  /\ call.args[1] = <<"1", "2", "3">>
  /\ call.out = Raise("AttributeError")
  /\ _zipcodes = None


(***************************************************************************)
(* Concurrent first queries.  Each thread runs get_state('78701'): _load()  *)
(* statement by statement (the interpreter may switch threads between any  *)
(* two of them, and file I/O releases the interpreter lock), then the read *)
(* of the table global.  There is no lock anywhere in the module.          *)
(***************************************************************************)
NumThreads == 2

Threads == 1..NumThreads

ArtifactsConc ==
  {[kind |-> "ok", doc |-> d] :
     d \in {("type" :> Str_type) @@ ("version" :> Str_version) @@ ("zipcodes" :> t) :
              t \in {<<>>, (Zip_78701 :> 43), (Zip_78701 :> 43) @@ (Zip_00501 :> 34)}}
           \cup {("type" :> Str_type)}}
  \cup {[kind |-> k, doc |-> NoDoc] : k \in {"missing", "corrupt", "not_object"}}

InitConc ==
  /\ artifact \in ArtifactsConc
  /\ InitGlobals
  /\ input = NoInput
  /\ pc = [t \in Threads |-> "start"]
  /\ dataset = [t \in Threads |-> None]
  /\ seen = [t \in Threads |-> None]

\* line 155: if _zipcodes is not None: return
T_check(t) ==
  /\ pc[t] = "start"
  /\ pc' = [pc EXCEPT ![t] = IF _zipcodes # None THEN "loaded" ELSE "open"]
  /\ UNCHANGED <<artifact, _zipcodes, _dataset_version, decodes, nextId, call, input,
                 dataset, seen>>

\* line 157: gzip.open(...)
T_open(t) ==
  /\ pc[t] = "open"
  /\ pc' = [pc EXCEPT ![t] = IF artifact.kind = "missing" THEN "raised" ELSE "decode"]
  /\ UNCHANGED <<artifact, _zipcodes, _dataset_version, decodes, nextId, call, input,
                 dataset, seen>>

\* line 158: dataset = json.loads(gz.read().decode('ascii')); the decoded
\* document is a fresh object.
T_decode(t) ==
  /\ pc[t] = "decode"
  /\ IF artifact.kind = "corrupt"
     THEN /\ pc' = [pc EXCEPT ![t] = "raised"]
          /\ UNCHANGED <<dataset, decodes, nextId>>
     ELSE /\ pc' = [pc EXCEPT ![t] = "set_version"]
          /\ dataset' = [dataset EXCEPT ![t] = [id |-> nextId, doc |-> artifact.doc]]
          /\ decodes' = decodes + 1
          /\ nextId' = nextId + 1
  /\ UNCHANGED <<artifact, _zipcodes, _dataset_version, call, input, seen>>

\* line 159: _dataset_version = dataset.get('version', 'unknown')
T_set_version(t) ==
  /\ pc[t] = "set_version"
  /\ IF artifact.kind = "not_object"
     THEN /\ pc' = [pc EXCEPT ![t] = "raised"]
          /\ UNCHANGED _dataset_version
     ELSE /\ pc' = [pc EXCEPT ![t] = "set_zipcodes"]
          /\ _dataset_version' = Get(dataset[t].doc, "version", Str_unknown)
  /\ UNCHANGED <<artifact, _zipcodes, decodes, nextId, call, input, dataset, seen>>

\* line 160: _zipcodes = dataset.get('zipcodes', {})
T_set_zipcodes(t) ==
  /\ pc[t] = "set_zipcodes"
  /\ _zipcodes' = DictRef(dataset[t].id, Get(dataset[t].doc, "zipcodes", <<>>))
  /\ pc' = [pc EXCEPT ![t] = "loaded"]
  /\ UNCHANGED <<artifact, _dataset_version, decodes, nextId, call, input, dataset, seen>>

\* line 206: _zipcodes.get(zipcode[:5]), the caller's read of the table
T_query(t) ==
  /\ pc[t] = "loaded"
  /\ seen' = [seen EXCEPT ![t] = _zipcodes]
  /\ pc' = [pc EXCEPT ![t] = "done"]
  /\ UNCHANGED <<artifact, _zipcodes, _dataset_version, decodes, nextId, call, input,
                 dataset>>

NextConc ==
  \E t \in Threads :
    \/ T_check(t)
    \/ T_open(t)
    \/ T_decode(t)
    \/ T_set_version(t)
    \/ T_set_zipcodes(t)
    \/ T_query(t)

SpecConc == InitConc /\ [][NextConc]_vars

\* C5: concurrent first queries decode the artifact exactly once, and every
\* caller that has returned observed the same table instance.
C5_SingleFlight ==
  /\ decodes <= 1
  /\ \A t1, t2 \in Threads :
       (pc[t1] = "done" /\ pc[t2] = "done") => seen[t1] = seen[t2]


(***************************************************************************)
(* is_valid on drawn inputs                                                *)
(***************************************************************************)

\* Every string over ZipAlphabet of length at most MaxZipLen ...
MaxZipLen == 5

ZipAlphabet == {"7", "-", "x", "NL"}

ShortStrings == UNION {[1..n -> ZipAlphabet] : n \in 0..MaxZipLen}

\* ... and the strings  digits{a} sep digits{b} tail  for a <= MaxHead and
\* b <= MaxSuffix.
MaxHead == 6

MaxSuffix == 5

DigitRun == <<"6", "0", "6", "1", "4", "7", "8", "9", "0", "2", "8", "0", "3">>

Seps == {<<>>, <<"-">>, <<"-", "-">>, <<"x">>, <<" ">>, <<"NL">>}

Tails == {<<>>, <<"NL">>, <<"NL", "NL">>, <<"x">>, <<"-">>, <<"ARDIGIT">>}

ShapedStrings ==
  {SubSeq(DigitRun, 1, a) \o sep \o SubSeq(DigitRun, a + 1, a + b) \o tail :
     a \in 0..MaxHead, sep \in Seps, b \in 0..MaxSuffix, tail \in Tails}

ZipInputs == ShortStrings \cup ShapedStrings

InitZip ==
  /\ artifact \in {ArtifactTX, [kind |-> "missing", doc |-> NoDoc]}
  /\ InitGlobals
  /\ input \in [zipcode : ZipInputs]
  /\ pc = NoThreads
  /\ dataset = NoThreads
  /\ seen = NoThreads

NextZip ==
  \/ Call_is_valid(input.zipcode)
  \/ Call_dataset_version

SpecZip == InitZip /\ [][NextZip]_vars

AllDigits(s, from, to) == \A i \in from..to : IsDigit(s[i])

Chomp(s) == IF s # <<>> /\ s[Len(s)] = "NL" THEN SubSeq(s, 1, Len(s) - 1) ELSE s

get_state_index(abbv) ==
  LET u == Upper(abbv)
      hits == {i \in DOMAIN STATES_LIST : STATES_LIST[i] = u}
  IN  IF hits = {} THEN -1
      ELSE (CHOOSE i \in hits : \A j \in hits : i <= j) - 1

IsSpace(c) == c \in {" ", "NL"}

\* str.strip()
RECURSIVE Strip(_)
Strip(s) ==
  IF s = <<>> THEN s
  ELSE IF IsSpace(Head(s)) THEN Strip(Tail(s))
  ELSE IF IsSpace(s[Len(s)]) THEN Strip(SubSeq(s, 1, Len(s) - 1))
  ELSE s

\* A dict that keeps the first value of a repeated key.
DictOfFirst(pairs) ==
  [k \in {pairs[i][1] : i \in DOMAIN pairs} |->
     LET first == CHOOSE i \in DOMAIN pairs :
                    /\ pairs[i][1] = k
                    /\ \A j \in DOMAIN pairs : pairs[j][1] = k => i <= j
     IN  pairs[first][2]]

Kept(record) == get_state_index(record[5]) >= 0

\* Variant: a ZIP already in the mapping is not overwritten.
build_geonames_first_wins(records, version_txt) ==
  LET kept == SelectSeq(records, Kept) IN
  ("version" :> Strip(version_txt))
  @@ ("type" :> Str_type)
  @@ ("zipcodes" :> DictOfFirst([i \in DOMAIN kept |->
                                   <<kept[i][2], get_state_index(kept[i][5])>>]))

\* build_geonames(): records are the rows of US.txt (record[1] and record[4]
\* in Python are fields 2 and 5 here), version_txt the text of version.txt.
build_geonames(records, version_txt) ==
  LET kept == SelectSeq(records, Kept) IN
  ("version" :> Strip(version_txt))
  @@ ("type" :> Str_type)
  @@ ("zipcodes" :> DictOf([i \in DOMAIN kept |->
                              <<kept[i][2], get_state_index(kept[i][5])>>]))

Call_build_geonames(records, version_txt) ==
  Pure("build_geonames", <<records, version_txt>>, Return(build_geonames(records, version_txt)))

\* Upper bound on the number of rows of the source file.
MaxRecords == 3

\* A row of US.txt: country, postal code, place, state name, state code.
Row(zip, abbv) == <<<<"U", "S">>, zip, <<"p">>, <<"s">>, abbv>>

Rows ==
  {Row(z, a) : z \in {Zip_78701, Zip_00501},
               a \in {<<"T", "X">>, <<"n", "y">>, <<"A", "K">>, <<"P", "R">>}}

Sources == UNION {[1..n -> Rows] : n \in 0..MaxRecords}

Str_version_txt == <<"v", "1", "NL">>

InitBuild ==
  /\ artifact = ArtifactTX
  /\ InitGlobals
  /\ input \in [records : Sources]
  /\ pc = NoThreads
  /\ dataset = NoThreads
  /\ seen = NoThreads

NextBuild == Call_build_geonames(input.records, Str_version_txt)

SpecBuild == InitBuild /\ [][NextBuild]_vars

\* A record whose state code is, case-insensitively, a registry abbreviation.
Recognized(record) == IsAbbr(record[5])

\* The ordinal of such a record's state in the sorted abbreviation list.
OrdinalOf(record) == CHOOSE i \in 0..50 : SortedAbbr(i) = Upper(record[5])

Candidates(records, zip) ==
  {i \in DOMAIN records : records[i][2] = zip /\ Recognized(records[i])}

\* C10 as stated: the build maps each ZIP of a recognized record to exactly
\* one ordinal in [0, 50], that of the FIRST recognized record with that ZIP
\* in source order; unrecognized records are dropped.
C10_FirstMatchWins ==
  call.fn = "build_geonames" =>
    LET records == call.args[1]
        zipcodes == call.out.val["zipcodes"]
    IN  /\ DOMAIN zipcodes = {records[i][2] : i \in {j \in DOMAIN records : Recognized(records[j])}}
        /\ \A zip \in DOMAIN zipcodes :
             /\ zipcodes[zip] \in 0..50
             /\ \E i \in Candidates(records, zip) :
                  /\ \A j \in Candidates(records, zip) : i <= j
                  /\ zipcodes[zip] = OrdinalOf(records[i])

\* C10 as amended: the same, except that the LAST recognized record with
\* that ZIP in source order wins.
C10_LastMatchWins ==
  call.fn = "build_geonames" =>
    LET records == call.args[1]
        zipcodes == call.out.val["zipcodes"]
    IN  /\ DOMAIN zipcodes = {records[i][2] : i \in {j \in DOMAIN records : Recognized(records[j])}}
        /\ \A zip \in DOMAIN zipcodes :
             /\ zipcodes[zip] \in 0..50
             /\ \E i \in Candidates(records, zip) :
                  /\ \A j \in Candidates(records, zip) : j <= i
                  /\ zipcodes[zip] = OrdinalOf(records[i])

\* A source listing 78701 under TX, then under ny, then under the
\* unrecognized PR was built into 78701 -> 34 (NY).
C10_Witness ==
  /\ call.fn = "build_geonames"
  /\ call.args[1] = <<Row(Zip_78701, <<"T", "X">>), Row(Zip_78701, <<"n", "y">>),
                      Row(Zip_78701, <<"P", "R">>)>>
  /\ call.out.val["zipcodes"] = (Zip_78701 :> 34)

=============================================================================
